---- MODULE Spec2Model ----
(***************************************************************************)
(* Model of src/chart/mesh.rs: the MeshStyle builder, the                  *)
(* SecondaryMeshStyle wrapper and the two-pass MeshStyle::draw.            *)
(* The chart context (the sink of draw_mesh requests) is a stub that logs  *)
(* every request it receives and answers with a result chosen by the       *)
(* environment.                                                            *)
(***************************************************************************)
EXTENDS Integers, Sequences, FiniteSets, TLC

\* ------------------------------------------------------------------ bounds
\* Number of API calls (setters and draw) made on one builder.
MaxCalls == 3

\* ------------------------------------------------------- Option<T>
None == [some |-> FALSE]
Some(v) == [some |-> TRUE, v |-> v]

\* ------------------------------------------------------- usize
\* usize is 64 bits wide; a value is kept as four little-endian 16-bit limbs
\* so that the products of draw are computed at their real width.
LimbBase == 65536
Usize(n) == <<n, 0, 0, 0>>
UsizeMax == <<LimbBase - 1, LimbBase - 1, LimbBase - 1, LimbBase - 1>>
\* (2^64 - 1) \div 10 + 1 = 1844674407370955162: the least count whose tenfold overflows
UsizeMaxDiv10Plus1 == <<39322, 39321, 39321, 6553>>

\* The mathematical product a * k: the low 64 bits and what does not fit.
WideMul(a, k) ==
    LET p1 == a[1] * k
        p2 == a[2] * k + (p1 \div LimbBase)
        p3 == a[3] * k + (p2 \div LimbBase)
        p4 == a[4] * k + (p3 \div LimbBase)
    IN  [low  |-> <<p1 % LimbBase, p2 % LimbBase, p3 % LimbBase, p4 % LimbBase>>,
         high |-> p4 \div LimbBase]

\* The `*` of usize: with overflow checks (debug builds) an overflowing
\* product panics, without them (release builds) it wraps modulo 2^64.
UsizeMul(a, k, overflow_checks) ==
    LET w == WideMul(a, k)
    IN  [panic |-> overflow_checks /\ w.high # 0, v |-> w.low]

\* ------------------------------------------------------- sizes and styles
Min(a, b) == IF a < b THEN a ELSE b
Max(a, b) == IF a > b THEN a ELSE b

\* A SizeDesc argument: an absolute pixel count (i32) or a percentage of the
\* smaller side of the parent (RelativeSize), optionally with a floor.
Px(n) == [unit |-> "px", n |-> n, floor |-> 0]
Percent(p) == [unit |-> "percent", n |-> p, floor |-> 0]
PercentMax(p, m) == [unit |-> "percent", n |-> p, floor |-> m]

in_pixels(size, parent) ==
    IF size.unit = "px"
    THEN size.n
    ELSE Max((Min(parent[1], parent[2]) * size.n + 50) \div 100, size.floor)

\* A colour with its opacity in percent; a ShapeStyle made from a colour.
RGBColor(r, g, b) == [rgb |-> <<r, g, b>>, alpha |-> 100]
mix(color, percent) == [rgb |-> color.rgb, alpha |-> percent]
ColorIntoShapeStyle(color) == [color |-> color]

\* FontDesc: a family and a size in pixels; a TextStyle is a font and a
\* colour, black when it is made from a font alone.
FontDesc(family, size) == [family |-> family, size |-> size]
FontIntoTextStyle(font) == [font |-> font, color |-> RGBColor(0, 0, 0)]
\* IntoTextStyle: a TextStyle converts to itself, a (family, size) pair is
\* resolved against the parent size.
into_text_style(style, parent) ==
    IF style.resolved
    THEN style.v
    ELSE FontIntoTextStyle(FontDesc(style.family, in_pixels(style.size, parent)))
TextStyleArg(ts) == [resolved |-> TRUE, v |-> ts]
FontArg(family, size) == [resolved |-> FALSE, family |-> family, size |-> size]

\* ------------------------------------------------------- formatters
\* A label formatter is a caller-supplied function from a domain value to a
\* String; the text it produces is kept as the tuple of its pieces.
Values == {0, 1}
Formatters == {"debug", "paren", "unit"}
ApplyFmt(f, v) ==
    CASE f = "debug" -> <<v>>
      [] f = "paren" -> <<"(", v, ")">>
      [] OTHER       -> <<v, "u">>

\* MeshLine::XMesh(_, _, v) / MeshLine::YMesh(_, _, v)
XMesh(v) == [tag |-> "XMesh", v |-> v]
YMesh(v) == [tag |-> "YMesh", v |-> v]
MeshLines == {XMesh(v) : v \in Values} \cup {YMesh(v) : v \in Values}

\* ------------------------------------------------------- input sets
LabelAreaPosition == {"Top", "Bottom", "Left", "Right"}
Sizes == {Px(3), Percent(10)}
ParentSizes == {<<200, 100>>, <<640, 480>>}
LabelCounts == {Usize(0), UsizeMaxDiv10Plus1, UsizeMax}
ShapeStyles == {ColorIntoShapeStyle(RGBColor(255, 0, 0)),
                ColorIntoShapeStyle(mix(RGBColor(0, 0, 0), 20))}
TextStyleArgs == {FontArg("serif", Px(20)), FontArg("mono", Percent(10))}
Descs == {"Time", "Value"}
SinkResults == {"Ok", "ErrA", "ErrB"}

VARIABLES
    kind,            \* "primary": a MeshStyle, "secondary": a SecondaryMeshStyle
    parent_size, draw_x_mesh, draw_y_mesh, draw_x_axis, draw_y_axis,
    x_label_offset, y_label_offset, n_x_labels, n_y_labels,
    axis_desc_style, x_desc, y_desc, line_style_1, line_style_2,
    axis_style, label_style, format_x, format_y, target,
    x_tick_size, y_tick_size,
    requests,        \* the draw_mesh requests the chart context received
    responses,       \* the result the chart context gave to each of them
    ret,             \* what the last call returned
    n_calls          \* calls made so far

config == <<parent_size, draw_x_mesh, draw_y_mesh, draw_x_axis, draw_y_axis,
            x_label_offset, y_label_offset, n_x_labels, n_y_labels,
            axis_desc_style, x_desc, y_desc, line_style_1, line_style_2,
            axis_style, label_style, format_x, format_y,
            x_tick_size, y_tick_size>>
sink == <<requests, responses>>
vars == <<kind, config, target, sink, ret, n_calls>>

\* ------------------------------------------------------- construction
DefaultLabels == Usize(10)
DefaultTickSize == 0

\* ChartContext::configure_mesh: a fresh MeshStyle bound to the chart context.
configure_mesh ==
    /\ parent_size \in ParentSizes
    /\ draw_x_mesh = TRUE /\ draw_y_mesh = TRUE
    /\ draw_x_axis = TRUE /\ draw_y_axis = TRUE
    /\ x_label_offset = 0 /\ y_label_offset = 0
    /\ n_x_labels = DefaultLabels /\ n_y_labels = DefaultLabels
    /\ axis_desc_style = None /\ x_desc = None /\ y_desc = None
    /\ line_style_1 = None /\ line_style_2 = None
    /\ axis_style = None /\ label_style = None
    /\ format_x = "debug" /\ format_y = "debug"
    /\ target = Some("chart")
    /\ x_tick_size = <<DefaultTickSize, DefaultTickSize>>
    /\ y_tick_size = <<DefaultTickSize, DefaultTickSize>>

\* The mesh flags SecondaryMeshStyle::new writes over those of configure_mesh.
SecondaryMeshFlags_x_only == <<TRUE, FALSE>>
SecondaryMeshFlags == <<FALSE, FALSE>>

\* SecondaryMeshStyle::new: configure_mesh, then both mesh flags forced off.
SecondaryMeshStyle_new ==
    /\ parent_size \in ParentSizes
    /\ draw_x_mesh = SecondaryMeshFlags[1] /\ draw_y_mesh = SecondaryMeshFlags[2]
    /\ draw_x_axis = TRUE /\ draw_y_axis = TRUE
    /\ x_label_offset = 0 /\ y_label_offset = 0
    /\ n_x_labels = DefaultLabels /\ n_y_labels = DefaultLabels
    /\ axis_desc_style = None /\ x_desc = None /\ y_desc = None
    /\ line_style_1 = None /\ line_style_2 = None
    /\ axis_style = None /\ label_style = None
    /\ format_x = "debug" /\ format_y = "debug"
    /\ target = Some("chart")
    /\ x_tick_size = <<DefaultTickSize, DefaultTickSize>>
    /\ y_tick_size = <<DefaultTickSize, DefaultTickSize>>

Init ==
    /\ kind \in {"primary", "secondary"}
    /\ IF kind = "primary" THEN configure_mesh ELSE SecondaryMeshStyle_new
    /\ requests = <<>> /\ responses = <<>>
    /\ ret = "new"
    /\ n_calls = 0

\* ------------------------------------------------------- setters
\* Every setter returns &mut Self and touches neither the target nor the sink.
Returned(fields) ==
    /\ n_calls < MaxCalls
    /\ n_calls' = n_calls + 1
    /\ ret' = "self"
    /\ UNCHANGED <<kind, parent_size, target, sink>>
    /\ UNCHANGED fields

MeshStyle_set_all_tick_mark_size(value) ==
    /\ LET size == in_pixels(value, parent_size)
       IN  /\ x_tick_size' = <<size, size>>
           /\ y_tick_size' = <<size, size>>
    /\ Returned(<<draw_x_mesh, draw_y_mesh, draw_x_axis, draw_y_axis,
                  x_label_offset, y_label_offset, n_x_labels, n_y_labels,
                  axis_desc_style, x_desc, y_desc, line_style_1, line_style_2,
                  axis_style, label_style, format_x, format_y>>)

MeshStyle_set_tick_mark_size_swapped(pos, value) ==
    /\ CASE pos = "Top"    -> /\ x_tick_size' = [x_tick_size EXCEPT ![2] = in_pixels(value, parent_size)]
                              /\ y_tick_size' = y_tick_size
         [] pos = "Bottom" -> /\ x_tick_size' = [x_tick_size EXCEPT ![1] = in_pixels(value, parent_size)]
                              /\ y_tick_size' = y_tick_size
         [] pos = "Left"   -> /\ y_tick_size' = [y_tick_size EXCEPT ![1] = in_pixels(value, parent_size)]
                              /\ x_tick_size' = x_tick_size
         [] OTHER          -> /\ y_tick_size' = [y_tick_size EXCEPT ![2] = in_pixels(value, parent_size)]
                              /\ x_tick_size' = x_tick_size
    /\ Returned(<<draw_x_mesh, draw_y_mesh, draw_x_axis, draw_y_axis,
                  x_label_offset, y_label_offset, n_x_labels, n_y_labels,
                  axis_desc_style, x_desc, y_desc, line_style_1, line_style_2,
                  axis_style, label_style, format_x, format_y>>)

\* The slots x_tick_size[0], [1] of the source are the tuple positions 1, 2.
MeshStyle_set_tick_mark_size(pos, value) ==
    /\ CASE pos = "Top"    -> /\ x_tick_size' = [x_tick_size EXCEPT ![1] = in_pixels(value, parent_size)]
                              /\ y_tick_size' = y_tick_size
         [] pos = "Bottom" -> /\ x_tick_size' = [x_tick_size EXCEPT ![2] = in_pixels(value, parent_size)]
                              /\ y_tick_size' = y_tick_size
         [] pos = "Left"   -> /\ y_tick_size' = [y_tick_size EXCEPT ![1] = in_pixels(value, parent_size)]
                              /\ x_tick_size' = x_tick_size
         [] OTHER          -> /\ y_tick_size' = [y_tick_size EXCEPT ![2] = in_pixels(value, parent_size)]
                              /\ x_tick_size' = x_tick_size
    /\ Returned(<<draw_x_mesh, draw_y_mesh, draw_x_axis, draw_y_axis,
                  x_label_offset, y_label_offset, n_x_labels, n_y_labels,
                  axis_desc_style, x_desc, y_desc, line_style_1, line_style_2,
                  axis_style, label_style, format_x, format_y>>)

MeshStyle_x_label_offset(value) ==
    /\ x_label_offset' = in_pixels(value, parent_size)
    /\ Returned(<<draw_x_mesh, draw_y_mesh, draw_x_axis, draw_y_axis,
                  y_label_offset, n_x_labels, n_y_labels,
                  axis_desc_style, x_desc, y_desc, line_style_1, line_style_2,
                  axis_style, label_style, format_x, format_y,
                  x_tick_size, y_tick_size>>)

MeshStyle_y_label_offset(value) ==
    /\ y_label_offset' = in_pixels(value, parent_size)
    /\ Returned(<<draw_x_mesh, draw_y_mesh, draw_x_axis, draw_y_axis,
                  x_label_offset, n_x_labels, n_y_labels,
                  axis_desc_style, x_desc, y_desc, line_style_1, line_style_2,
                  axis_style, label_style, format_x, format_y,
                  x_tick_size, y_tick_size>>)

MeshStyle_disable_x_mesh ==
    /\ draw_x_mesh' = FALSE
    /\ Returned(<<draw_y_mesh, draw_x_axis, draw_y_axis,
                  x_label_offset, y_label_offset, n_x_labels, n_y_labels,
                  axis_desc_style, x_desc, y_desc, line_style_1, line_style_2,
                  axis_style, label_style, format_x, format_y,
                  x_tick_size, y_tick_size>>)

MeshStyle_disable_y_mesh ==
    /\ draw_y_mesh' = FALSE
    /\ Returned(<<draw_x_mesh, draw_x_axis, draw_y_axis,
                  x_label_offset, y_label_offset, n_x_labels, n_y_labels,
                  axis_desc_style, x_desc, y_desc, line_style_1, line_style_2,
                  axis_style, label_style, format_x, format_y,
                  x_tick_size, y_tick_size>>)

MeshStyle_disable_x_axis ==
    /\ draw_x_axis' = FALSE
    /\ Returned(<<draw_x_mesh, draw_y_mesh, draw_y_axis,
                  x_label_offset, y_label_offset, n_x_labels, n_y_labels,
                  axis_desc_style, x_desc, y_desc, line_style_1, line_style_2,
                  axis_style, label_style, format_x, format_y,
                  x_tick_size, y_tick_size>>)

MeshStyle_disable_y_axis ==
    /\ draw_y_axis' = FALSE
    /\ Returned(<<draw_x_mesh, draw_y_mesh, draw_x_axis,
                  x_label_offset, y_label_offset, n_x_labels, n_y_labels,
                  axis_desc_style, x_desc, y_desc, line_style_1, line_style_2,
                  axis_style, label_style, format_x, format_y,
                  x_tick_size, y_tick_size>>)

MeshStyle_axis_style(style) ==
    /\ axis_style' = Some(style)
    /\ Returned(<<draw_x_mesh, draw_y_mesh, draw_x_axis, draw_y_axis,
                  x_label_offset, y_label_offset, n_x_labels, n_y_labels,
                  axis_desc_style, x_desc, y_desc, line_style_1, line_style_2,
                  label_style, format_x, format_y,
                  x_tick_size, y_tick_size>>)

MeshStyle_x_labels(value) ==
    /\ n_x_labels' = value
    /\ Returned(<<draw_x_mesh, draw_y_mesh, draw_x_axis, draw_y_axis,
                  x_label_offset, y_label_offset, n_y_labels,
                  axis_desc_style, x_desc, y_desc, line_style_1, line_style_2,
                  axis_style, label_style, format_x, format_y,
                  x_tick_size, y_tick_size>>)

MeshStyle_y_labels(value) ==
    /\ n_y_labels' = value
    /\ Returned(<<draw_x_mesh, draw_y_mesh, draw_x_axis, draw_y_axis,
                  x_label_offset, y_label_offset, n_x_labels,
                  axis_desc_style, x_desc, y_desc, line_style_1, line_style_2,
                  axis_style, label_style, format_x, format_y,
                  x_tick_size, y_tick_size>>)

MeshStyle_line_style_1(style) ==
    /\ line_style_1' = Some(style)
    /\ Returned(<<draw_x_mesh, draw_y_mesh, draw_x_axis, draw_y_axis,
                  x_label_offset, y_label_offset, n_x_labels, n_y_labels,
                  axis_desc_style, x_desc, y_desc, line_style_2,
                  axis_style, label_style, format_x, format_y,
                  x_tick_size, y_tick_size>>)

MeshStyle_line_style_2(style) ==
    /\ line_style_2' = Some(style)
    /\ Returned(<<draw_x_mesh, draw_y_mesh, draw_x_axis, draw_y_axis,
                  x_label_offset, y_label_offset, n_x_labels, n_y_labels,
                  axis_desc_style, x_desc, y_desc, line_style_1,
                  axis_style, label_style, format_x, format_y,
                  x_tick_size, y_tick_size>>)

MeshStyle_label_style(style) ==
    /\ label_style' = Some(into_text_style(style, parent_size))
    /\ Returned(<<draw_x_mesh, draw_y_mesh, draw_x_axis, draw_y_axis,
                  x_label_offset, y_label_offset, n_x_labels, n_y_labels,
                  axis_desc_style, x_desc, y_desc, line_style_1, line_style_2,
                  axis_style, format_x, format_y,
                  x_tick_size, y_tick_size>>)

MeshStyle_x_label_formatter(fmt) ==
    /\ format_x' = fmt
    /\ Returned(<<draw_x_mesh, draw_y_mesh, draw_x_axis, draw_y_axis,
                  x_label_offset, y_label_offset, n_x_labels, n_y_labels,
                  axis_desc_style, x_desc, y_desc, line_style_1, line_style_2,
                  axis_style, label_style, format_y,
                  x_tick_size, y_tick_size>>)

MeshStyle_y_label_formatter(fmt) ==
    /\ format_y' = fmt
    /\ Returned(<<draw_x_mesh, draw_y_mesh, draw_x_axis, draw_y_axis,
                  x_label_offset, y_label_offset, n_x_labels, n_y_labels,
                  axis_desc_style, x_desc, y_desc, line_style_1, line_style_2,
                  axis_style, label_style, format_x,
                  x_tick_size, y_tick_size>>)

MeshStyle_axis_desc_style(style) ==
    /\ axis_desc_style' = Some(into_text_style(style, parent_size))
    /\ Returned(<<draw_x_mesh, draw_y_mesh, draw_x_axis, draw_y_axis,
                  x_label_offset, y_label_offset, n_x_labels, n_y_labels,
                  x_desc, y_desc, line_style_1, line_style_2,
                  axis_style, label_style, format_x, format_y,
                  x_tick_size, y_tick_size>>)

MeshStyle_x_desc(desc) ==
    /\ x_desc' = Some(desc)
    /\ Returned(<<draw_x_mesh, draw_y_mesh, draw_x_axis, draw_y_axis,
                  x_label_offset, y_label_offset, n_x_labels, n_y_labels,
                  axis_desc_style, y_desc, line_style_1, line_style_2,
                  axis_style, label_style, format_x, format_y,
                  x_tick_size, y_tick_size>>)

MeshStyle_y_desc(desc) ==
    /\ y_desc' = Some(desc)
    /\ Returned(<<draw_x_mesh, draw_y_mesh, draw_x_axis, draw_y_axis,
                  x_label_offset, y_label_offset, n_x_labels, n_y_labels,
                  axis_desc_style, x_desc, line_style_1, line_style_2,
                  axis_style, label_style, format_x, format_y,
                  x_tick_size, y_tick_size>>)

\* ------------------------------------------------------- draw
\* Defaults resolved at draw time for whatever was left unset.
default_mesh_color_1 == mix(RGBColor(0, 0, 0), 20)
default_mesh_color_2 == mix(RGBColor(0, 0, 0), 10)
default_axis_color == RGBColor(0, 0, 0)
default_label_font == FontDesc("Arial", in_pixels(PercentMax(12, 12), parent_size))

unwrap_or(opt, default) == IF opt.some THEN opt.v ELSE default

mesh_style_1 == unwrap_or(line_style_1, ColorIntoShapeStyle(default_mesh_color_1))
mesh_style_2 == unwrap_or(line_style_2, ColorIntoShapeStyle(default_mesh_color_2))
resolved_axis_style == unwrap_or(axis_style, ColorIntoShapeStyle(default_axis_color))
resolved_label_style == unwrap_or(label_style, FontIntoTextStyle(default_label_font))
resolved_axis_desc_style_font_only == unwrap_or(axis_desc_style, FontIntoTextStyle(default_label_font))
resolved_axis_desc_style == unwrap_or(axis_desc_style, resolved_label_style)

\* The closures handed to draw_mesh as label formatter, and their call.
CoarseFormatter == [body |-> "suppress"]
FineFormatter_crossed == [body |-> "per_axis", format_x |-> format_y, format_y |-> format_x]
FineFormatter == [body |-> "per_axis", format_x |-> format_x, format_y |-> format_y]
CallFormatter(closure, m) ==
    IF closure.body = "suppress"
    THEN None
    ELSE IF m.tag = "XMesh"
         THEN Some(ApplyFmt(closure.format_x, m.v))
         ELSE Some(ApplyFmt(closure.format_y, m.v))

\* The arguments of the two draw_mesh calls.
CoarseLineStyle_style_1 == mesh_style_1
CoarseLineStyle == mesh_style_2
FineLineStyle == mesh_style_1
CoarseAxisFlags_own == <<draw_x_axis, draw_y_axis>>
CoarseAxisFlags == <<FALSE, FALSE>>
CoarseDescs_none == <<None, None>>
CoarseDescs == <<x_desc, y_desc>>
FineDescs == <<None, None>>

CoarseRequest(density) ==
    [density |-> density,
     line_style |-> CoarseLineStyle,
     label_style |-> resolved_label_style,
     fmt_label |-> CoarseFormatter,
     x_mesh |-> draw_x_mesh, y_mesh |-> draw_y_mesh,
     x_label_offset |-> x_label_offset, y_label_offset |-> y_label_offset,
     x_axis |-> CoarseAxisFlags[1], y_axis |-> CoarseAxisFlags[2],
     axis_style |-> resolved_axis_style,
     axis_desc_style |-> resolved_axis_desc_style,
     x_desc |-> CoarseDescs[1], y_desc |-> CoarseDescs[2],
     x_tick_size |-> x_tick_size, y_tick_size |-> y_tick_size]

FineRequest ==
    [density |-> <<n_y_labels, n_x_labels>>,
     line_style |-> FineLineStyle,
     label_style |-> resolved_label_style,
     fmt_label |-> FineFormatter,
     x_mesh |-> draw_x_mesh, y_mesh |-> draw_y_mesh,
     x_label_offset |-> x_label_offset, y_label_offset |-> y_label_offset,
     x_axis |-> draw_x_axis, y_axis |-> draw_y_axis,
     axis_style |-> resolved_axis_style,
     axis_desc_style |-> resolved_axis_desc_style,
     x_desc |-> FineDescs[1], y_desc |-> FineDescs[2],
     x_tick_size |-> x_tick_size, y_tick_size |-> y_tick_size]

\* let mut target = None; swap(&mut target, &mut self.target): what is left
\* in self.target.
TargetAfterSwap_kept == target
TargetAfterSwap == None

\* The `?` after the first draw_mesh: returns early on anything but Ok.
QuestionMarkReturns_never(r) == FALSE
QuestionMarkReturns(r) == r # "Ok"

\* MeshStyle::draw.  The chart context answers the first request with r1 and
\* the second, if it comes, with r2.
MeshStyle_draw ==
    /\ n_calls < MaxCalls
    /\ n_calls' = n_calls + 1
    /\ UNCHANGED <<kind, config>>
    /\ target' = TargetAfterSwap
    /\ IF ~target.some
       THEN \* unwrap() of None
            /\ ret' = "panic"
            /\ UNCHANGED sink
       ELSE \E overflow_checks \in BOOLEAN, r1 \in SinkResults, r2 \in SinkResults :
              LET dy == UsizeMul(n_y_labels, 10, overflow_checks)
                  dx == UsizeMul(n_x_labels, 10, overflow_checks)
              IN  IF dy.panic \/ dx.panic
                  THEN \* attempt to multiply with overflow
                       /\ ret' = "panic"
                       /\ UNCHANGED sink
                  ELSE IF QuestionMarkReturns(r1)
                  THEN /\ requests' = Append(requests, CoarseRequest(<<dy.v, dx.v>>))
                       /\ responses' = Append(responses, r1)
                       /\ ret' = r1
                  ELSE /\ requests' = requests \o <<CoarseRequest(<<dy.v, dx.v>>), FineRequest>>
                       /\ responses' = responses \o <<r1, r2>>
                       /\ ret' = r2

\* ------------------------------------------------------- SecondaryMeshStyle
\* Every method forwards to the inner MeshStyle.
SecondaryMeshStyle_axis_style(style) == MeshStyle_axis_style(style)
SecondaryMeshStyle_x_label_offset(value) == MeshStyle_x_label_offset(value)
SecondaryMeshStyle_y_label_offset(value) == MeshStyle_y_label_offset(value)
SecondaryMeshStyle_x_labels(value) == MeshStyle_x_labels(value)
SecondaryMeshStyle_y_labels(value) == MeshStyle_y_labels(value)
SecondaryMeshStyle_x_label_formatter(fmt) == MeshStyle_x_label_formatter(fmt)
SecondaryMeshStyle_y_label_formatter(fmt) == MeshStyle_y_label_formatter(fmt)
SecondaryMeshStyle_axis_desc_style(style) ==
    MeshStyle_axis_desc_style(TextStyleArg(into_text_style(style, parent_size)))
SecondaryMeshStyle_x_desc(desc) == MeshStyle_x_desc(desc)
SecondaryMeshStyle_y_desc(desc) == MeshStyle_y_desc(desc)
SecondaryMeshStyle_draw == MeshStyle_draw
SecondaryMeshStyle_label_style(style) == MeshStyle_label_style(style)

\* ------------------------------------------------------- specification
MeshStyleCall ==
    \/ \E value \in Sizes : MeshStyle_set_all_tick_mark_size(value)
    \/ \E pos \in LabelAreaPosition, value \in Sizes : MeshStyle_set_tick_mark_size(pos, value)
    \/ \E value \in Sizes : MeshStyle_x_label_offset(value)
    \/ \E value \in Sizes : MeshStyle_y_label_offset(value)
    \/ MeshStyle_disable_x_mesh
    \/ MeshStyle_disable_y_mesh
    \/ MeshStyle_disable_x_axis
    \/ MeshStyle_disable_y_axis
    \/ \E style \in ShapeStyles : MeshStyle_axis_style(style)
    \/ \E value \in LabelCounts : MeshStyle_x_labels(value)
    \/ \E value \in LabelCounts : MeshStyle_y_labels(value)
    \/ \E style \in ShapeStyles : MeshStyle_line_style_1(style)
    \/ \E style \in ShapeStyles : MeshStyle_line_style_2(style)
    \/ \E style \in TextStyleArgs : MeshStyle_label_style(style)
    \/ \E fmt \in Formatters : MeshStyle_x_label_formatter(fmt)
    \/ \E fmt \in Formatters : MeshStyle_y_label_formatter(fmt)
    \/ \E style \in TextStyleArgs : MeshStyle_axis_desc_style(style)
    \/ \E desc \in Descs : MeshStyle_x_desc(desc)
    \/ \E desc \in Descs : MeshStyle_y_desc(desc)
    \/ MeshStyle_draw

SecondaryMeshStyleCall ==
    \/ \E style \in ShapeStyles : SecondaryMeshStyle_axis_style(style)
    \/ \E value \in Sizes : SecondaryMeshStyle_x_label_offset(value)
    \/ \E value \in Sizes : SecondaryMeshStyle_y_label_offset(value)
    \/ \E value \in LabelCounts : SecondaryMeshStyle_x_labels(value)
    \/ \E value \in LabelCounts : SecondaryMeshStyle_y_labels(value)
    \/ \E fmt \in Formatters : SecondaryMeshStyle_x_label_formatter(fmt)
    \/ \E fmt \in Formatters : SecondaryMeshStyle_y_label_formatter(fmt)
    \/ \E style \in TextStyleArgs : SecondaryMeshStyle_axis_desc_style(style)
    \/ \E desc \in Descs : SecondaryMeshStyle_x_desc(desc)
    \/ \E desc \in Descs : SecondaryMeshStyle_y_desc(desc)
    \/ SecondaryMeshStyle_draw
    \/ \E style \in TextStyleArgs : SecondaryMeshStyle_label_style(style)

Next ==
    \/ kind = "primary" /\ MeshStyleCall
    \/ kind = "secondary" /\ SecondaryMeshStyleCall

Spec == Init /\ [][Next]_vars

\* ------------------------------------------------------- properties
\* The step is a call of draw (setters return "self").
DrawCalled == n_calls' = n_calls + 1 /\ ret' # "self"
\* The last call was a draw that reached the chart context: the logged
\* requests are its requests and the fields are those it read.
JustDrew == ret \in SinkResults
Black(percent) == [color |-> [rgb |-> <<0, 0, 0>>, alpha |-> percent]]
TickSlots == [Top |-> x_tick_size[1], Bottom |-> x_tick_size[2],
              Left |-> y_tick_size[1], Right |-> y_tick_size[2]]
\* d is the number 10 * n, not reduced modulo 2^64
IsTenTimes(d, n) == WideMul(n, 10).high = 0 /\ WideMul(n, 10).low = d

\* C1: a draw with the target present, on a sink that answers Ok to whatever
\* it is asked, issues exactly two requests, the first with density
\* (10*n_y, 10*n_x), the second with density (n_y, n_x), and returns the
\* result of the second.
C1_TwoRequestsTenfoldThenPlain ==
    [][(/\ DrawCalled
        /\ target.some
        /\ \A i \in (Len(responses) + 1)..Len(responses') : responses'[i] = "Ok")
       => (/\ Len(requests') = Len(requests) + 2
           /\ IsTenTimes(requests'[Len(requests) + 1].density[1], n_y_labels)
           /\ IsTenTimes(requests'[Len(requests) + 1].density[2], n_x_labels)
           /\ requests'[Len(requests) + 2].density = <<n_y_labels, n_x_labels>>
           /\ ret' = responses'[Len(requests) + 2])]_vars

\* C2: when the chart context fails the first request of a draw, draw returns
\* that failure, and that request stays the only one the context ever gets.
C2_CoarseFailureShortCircuits ==
    [][/\ (Len(responses') >= 1 /\ responses'[1] # "Ok") => Len(requests') = 1
       /\ (DrawCalled /\ Len(responses') > Len(responses)
             /\ responses'[Len(responses) + 1] # "Ok")
          => (/\ Len(requests') = Len(requests) + 1
              /\ ret' = responses'[Len(responses) + 1])]_vars
C2_Witness ==
    /\ responses = <<"ErrB">> /\ Len(requests) = 1
    /\ ret = "panic" /\ n_calls >= 2

\* C3: the target never comes back once taken, every draw leaves it taken,
\* and a draw that finds it taken panics without a request.
C3_TargetConsumedOnce ==
    [][/\ ~target.some => ~target'.some
       /\ DrawCalled => ~target'.some
       /\ (DrawCalled /\ ~target.some)
          => (ret' = "panic" /\ requests' = requests /\ responses' = responses)]_vars
C3_Witness ==
    /\ ~target.some /\ ret = "panic" /\ Len(requests) >= 1

C5_Formatters ==
    JustDrew =>
      /\ \A m \in MeshLines : ~CallFormatter(requests[1].fmt_label, m).some
      /\ Len(requests) = 2 =>
           \A v \in Values :
             /\ CallFormatter(requests[2].fmt_label, [tag |-> "XMesh", v |-> v])
                  = [some |-> TRUE, v |-> ApplyFmt(format_x, v)]
             /\ CallFormatter(requests[2].fmt_label, [tag |-> "YMesh", v |-> v])
                  = [some |-> TRUE, v |-> ApplyFmt(format_y, v)]
C5_Witness ==
    /\ JustDrew /\ Len(requests) = 2
    /\ format_x = "paren" /\ format_y = "unit"

\* C6: a SecondaryMeshStyle has both mesh flags off in every state, and so
\* has every request it issued.
C6_SecondaryMeshOff ==
    kind = "secondary" =>
      /\ ~draw_x_mesh /\ ~draw_y_mesh
      /\ \A i \in 1..Len(requests) : ~requests[i].x_mesh /\ ~requests[i].y_mesh
C6_Witness ==
    /\ kind = "secondary" /\ Len(requests) = 2 /\ n_calls = MaxCalls

\* C7: set_tick_mark_size(pos, value) writes the pixel value into the slot
\* Top -> x[0], Bottom -> x[1], Left -> y[0], Right -> y[1] and changes
\* nothing else.
C7_TickSlotFrame ==
    [][\A pos \in LabelAreaPosition, value \in Sizes :
         MeshStyle_set_tick_mark_size(pos, value)
         => /\ TickSlots' = [TickSlots EXCEPT ![pos] = in_pixels(value, parent_size)]
            /\ UNCHANGED <<kind, parent_size, draw_x_mesh, draw_y_mesh,
                           draw_x_axis, draw_y_axis, x_label_offset, y_label_offset,
                           n_x_labels, n_y_labels, axis_desc_style, x_desc, y_desc,
                           line_style_1, line_style_2, axis_style, label_style,
                           format_x, format_y, target, sink>>]_vars
\* set_all_tick_mark_size(Px(3)), then set_tick_mark_size(Top, Percent(10))
C7_Witness ==
    /\ parent_size = <<200, 100>> /\ n_calls = 2
    /\ x_tick_size = <<10, 3>> /\ y_tick_size = <<3, 3>>

\* C8: in every request of a draw the axis description style is the
\* axis_desc_style that was set, or else the label style of that request;
\* the label style is the label_style that was set, or else the default.
C8_DescStyleFallsBackToLabelStyle ==
    JustDrew =>
      \A i \in 1..Len(requests) :
        /\ requests[i].label_style =
             (IF label_style.some THEN label_style.v
              ELSE [font |-> [family |-> "Arial",
                              size |-> in_pixels(PercentMax(12, 12), parent_size)],
                    color |-> [rgb |-> <<0, 0, 0>>, alpha |-> 100]])
        /\ requests[i].axis_desc_style =
             (IF axis_desc_style.some THEN axis_desc_style.v
              ELSE requests[i].label_style)
C8_Witness ==
    /\ JustDrew /\ Len(requests) = 2
    /\ label_style.some /\ ~axis_desc_style.some
    /\ requests[1].axis_desc_style = label_style.v

\* C9: the coarse request has both axis flags off, the fine request has the
\* flags of the builder; both have its mesh flags, offsets and tick sizes.
C9_AxisOnlyOnFinePass ==
    JustDrew =>
      /\ ~requests[1].x_axis /\ ~requests[1].y_axis
      /\ Len(requests) = 2 =>
           (requests[2].x_axis = draw_x_axis /\ requests[2].y_axis = draw_y_axis)
      /\ \A i \in 1..Len(requests) :
           /\ requests[i].x_mesh = draw_x_mesh /\ requests[i].y_mesh = draw_y_mesh
           /\ requests[i].x_label_offset = x_label_offset
           /\ requests[i].y_label_offset = y_label_offset
           /\ requests[i].x_tick_size = x_tick_size
           /\ requests[i].y_tick_size = y_tick_size
C9_Witness ==
    /\ JustDrew /\ Len(requests) = 2
    /\ draw_x_axis /\ ~draw_y_axis
    /\ requests[2].x_axis /\ ~requests[2].y_axis

\* C10: the line style of the first request is line_style_2 if set, else
\* black at 10%; that of the second is line_style_1 if set, else black at 20%.
C10_LineStyles ==
    JustDrew =>
      /\ requests[1].line_style =
           (IF line_style_2.some THEN line_style_2.v ELSE Black(10))
      /\ Len(requests) = 2 =>
           requests[2].line_style =
             (IF line_style_1.some THEN line_style_1.v ELSE Black(20))
C10_Witness ==
    /\ JustDrew /\ Len(requests) = 2
    /\ line_style_2.some /\ ~line_style_1.some
    /\ requests[1].line_style = [color |-> [rgb |-> <<255, 0, 0>>, alpha |-> 100]]
    /\ requests[2].line_style = Black(20)

====
